---- MODULE Spec2Model ----
(***************************************************************************)
(* Model of the feedback admin dashboard (src/app.py): the API client      *)
(* (fetch_analytics, fetch_feedbacks), the sentiment normalizer, the       *)
(* feedback filter, and the render cycle of main() with its shared-secret  *)
(* gate, sort-then-cap step and stats bar.                                 *)
(*                                                                         *)
(* Python values are modelled as follows.                                  *)
(*   str            a sequence of one-character strings                    *)
(*   dict field     [tag, s] for text fields, [tag, n] for rating, where   *)
(*                  tag is "absent" (no such key), "null" (key maps to     *)
(*                  None) or "str" / "int" (key maps to a value)           *)
(*   call outcome   [kind, value, exc, st_error]: a returned value or a    *)
(*                  raised exception, and whether st.error was shown       *)
(***************************************************************************)
EXTENDS Integers, Sequences, FiniteSets, TLC

VARIABLES
    call,               \* SpecCalls: the function called and its arguments
    ret,                \* SpecCalls: what that call returned or raised
    API_KEY,            \* os.getenv("API_KEY"): a field, "null" when unset
    authenticated,      \* st.session_state.authenticated
    pc,                 \* position of the script run of main()
    button,             \* the button whose click started the current run
    requests,           \* the HTTP requests issued in the current run, in order
    analytics,          \* main: analytics
    fetched,            \* what fetch_feedbacks returned to main in this run
    feedbacks,          \* main: feedbacks (fetched, then sorted)
    rating_filter,      \* widget state "rating_filter"
    sentiment_filter,   \* widget state "sentiment_filter"
    search_query,       \* widget state "search_filter"
    filtered_feedbacks, \* main: filtered_feedbacks
    page                \* what the run has rendered

vars == <<call, ret, API_KEY, authenticated, pc, button, requests, analytics,
          fetched, feedbacks, rating_filter, sentiment_filter, search_query,
          filtered_feedbacks, page>>

sessionVars == <<API_KEY, authenticated, pc, button, requests, analytics,
                 fetched, feedbacks, rating_filter, sentiment_filter,
                 search_query, filtered_feedbacks, page>>

----------------------------------------------------------------------------
(* Program constants *)

\* display page size: filtered_feedbacks[:20]
PageSize == 20

----------------------------------------------------------------------------
(* Bounds of the model *)

\* longest exhaustively enumerated string (sentiment labels, search text)
MaxStrLen == 3
\* most '.' characters appended to a sentiment label
MaxDots == 2
\* longest exhaustively enumerated feedback list handed to filter_feedbacks
MaxRecords == 2
\* longest feedback list the feedbacks endpoint answers with (above PageSize)
MaxFetched == 21
\* number of generated families of endpoint answers
NumPatterns == 3

----------------------------------------------------------------------------
(* Python strings *)

Dot == "."

\* the string literals of the program that the model needs, spelled out
Unknown  == <<"U", "n", "k", "n", "o", "w", "n">>
Positive == <<"P", "o", "s", "i", "t", "i", "v", "e">>
Neutral  == <<"N", "e", "u", "t", "r", "a", "l">>
Negative == <<"N", "e", "g", "a", "t", "i", "v", "e">>

\* all strings over an alphabet, up to a length
Strings(alphabet, n) == UNION {[1..k -> alphabet] : k \in 0..n}

\* k '.' characters
Dots(k) == [i \in 1..k |-> Dot]

\* str.lower(), on the letters the model uses
LowerChar(c) ==
    CASE c = "A" -> "a"
      [] c = "B" -> "b"
      [] OTHER -> c

str_lower(s) == [i \in 1..Len(s) |-> LowerChar(s[i])]

\* needle in haystack, for two str
str_in(needle, haystack) ==
    \E i \in 1..(Len(haystack) - Len(needle) + 1) :
        SubSeq(haystack, i, i + Len(needle) - 1) = needle

\* str.rstrip(chars): drop trailing characters while they are in chars
RECURSIVE str_rstrip(_, _)
str_rstrip(s, chars) ==
    IF s # <<>> /\ s[Len(s)] \in chars
    THEN str_rstrip(SubSeq(s, 1, Len(s) - 1), chars)
    ELSE s

----------------------------------------------------------------------------
(* Python dict fields and call outcomes *)

Absent == [tag |-> "absent", s |-> <<>>]
Null   == [tag |-> "null", s |-> <<>>]
Str(s) == [tag |-> "str", s |-> s]

NoRating == [tag |-> "absent", n |-> 0]
NullRating == [tag |-> "null", n |-> 0]
IntVal(n) == [tag |-> "int", n |-> n]

\* dict.get(key, default): the default only when the key is absent
dict_get(d, key, default) ==
    IF d[key].tag = "absent" THEN Str(default) ELSE d[key]

Return(v) == [kind |-> "return", value |-> v, exc |-> "none", st_error |-> FALSE]
Raise(e)  == [kind |-> "raise", value |-> <<>>, exc |-> e, st_error |-> FALSE]

----------------------------------------------------------------------------
(* Feedback Normalizer *)

\* a plausible slip: .strip(".") for .rstrip("."), which also drops leading
\* '.' characters
RECURSIVE str_lstrip(_, _)
str_lstrip(s, chars) ==
    IF s # <<>> /\ Head(s) \in chars THEN str_lstrip(Tail(s), chars) ELSE s

normalize_sentiment_strip(feedback) ==
    LET v == dict_get(feedback, "sentiment", Unknown) IN
    IF v.tag = "null" THEN Raise("AttributeError")
    ELSE Return(str_lstrip(str_rstrip(v.s, {Dot}), {Dot}))

\* a plausible slip: strip one trailing '.' only
normalize_sentiment_one_dot(feedback) ==
    LET v == dict_get(feedback, "sentiment", Unknown) IN
    IF v.tag = "null" THEN Raise("AttributeError")
    ELSE IF v.s # <<>> /\ v.s[Len(v.s)] = Dot
         THEN Return(SubSeq(v.s, 1, Len(v.s) - 1))
         ELSE Return(v.s)

\* feedback.get("sentiment", "Unknown").rstrip(".")
normalize_sentiment(feedback) ==
    LET v == dict_get(feedback, "sentiment", Unknown) IN
    IF v.tag = "null" THEN Raise("AttributeError")
    ELSE Return(str_rstrip(v.s, {Dot}))

----------------------------------------------------------------------------
(* Feedback Filter *)

\* a plausible slip: an empty rating selection read as "no rating filter"
rating_test_empty_is_all(fb, rating_sel) ==
    IF fb.rating.tag = "absent" THEN Raise("KeyError")
    ELSE Return(rating_sel = {} \/ (fb.rating.tag = "int" /\ fb.rating.n \in rating_sel))

\* not the code: the rating brought into 1..5 before the test
rating_test_clamped(fb, rating_sel) ==
    IF fb.rating.tag = "absent" THEN Raise("KeyError")
    ELSE Return(/\ fb.rating.tag = "int"
                /\ (IF fb.rating.n < 1 THEN 1
                    ELSE IF fb.rating.n > 5 THEN 5 ELSE fb.rating.n) \in rating_sel)

\* fb["rating"] in rating_filter
rating_test(fb, rating_sel) ==
    IF fb.rating.tag = "absent" THEN Raise("KeyError")
    ELSE Return(fb.rating.tag = "int" /\ fb.rating.n \in rating_sel)

\* a plausible slip: the comparison without .lower()
search_in_case_sensitive(query, fb, key) ==
    LET v == dict_get(fb, key, <<>>) IN
    IF v.tag = "null" THEN Raise("AttributeError")
    ELSE Return(str_in(query, v.s))

\* search_query.lower() in fb.get(key, "").lower()
search_in(query, fb, key) ==
    LET v == dict_get(fb, key, <<>>) IN
    IF v.tag = "null" THEN Raise("AttributeError")
    ELSE Return(str_in(str_lower(query), str_lower(v.s)))

\* the condition of the list comprehension, with Python's short-circuit
\* evaluation of "and" / "or": an operand is evaluated (and may raise) only
\* when the operands before it did not settle the result
filter_condition(fb, rating_sel, sentiment_sel, query) ==
    LET c1 == rating_test(fb, rating_sel) IN
    IF c1.kind = "raise" THEN c1
    ELSE IF ~c1.value THEN Return(FALSE)
    ELSE
    LET c2 == normalize_sentiment(fb) IN
    IF c2.kind = "raise" THEN c2
    ELSE IF c2.value \notin sentiment_sel THEN Return(FALSE)
    ELSE IF query = <<>> THEN Return(TRUE)
    ELSE
    LET c3 == search_in(query, fb, "review") IN
    IF c3.kind = "raise" THEN c3
    ELSE IF c3.value THEN Return(TRUE)
    ELSE search_in(query, fb, "ai_summary")

\* the list comprehension: records are visited in order, a kept record is
\* appended to the result, and the first exception ends the call
RECURSIVE comprehension(_, _, _, _, _, _)
comprehension(fbs, i, acc, rating_sel, sentiment_sel, query) ==
    IF i > Len(fbs) THEN Return(acc)
    ELSE LET c == filter_condition(fbs[i], rating_sel, sentiment_sel, query) IN
         IF c.kind = "raise" THEN c
         ELSE comprehension(fbs, i + 1,
                            IF c.value THEN Append(acc, fbs[i]) ELSE acc,
                            rating_sel, sentiment_sel, query)

\* a plausible slip: kept records collected in front of the result
RECURSIVE comprehension_prepend(_, _, _, _, _, _)
comprehension_prepend(fbs, i, acc, rating_sel, sentiment_sel, query) ==
    IF i > Len(fbs) THEN Return(acc)
    ELSE LET c == filter_condition(fbs[i], rating_sel, sentiment_sel, query) IN
         IF c.kind = "raise" THEN c
         ELSE comprehension_prepend(fbs, i + 1,
                            IF c.value THEN <<fbs[i]>> \o acc ELSE acc,
                            rating_sel, sentiment_sel, query)

filter_feedbacks_prepend(fbs, rating_sel, sentiment_sel, query) ==
    comprehension_prepend(fbs, 1, <<>>, rating_sel, sentiment_sel, query)

filter_feedbacks(fbs, rating_sel, sentiment_sel, query) ==
    comprehension(fbs, 1, <<>>, rating_sel, sentiment_sel, query)

----------------------------------------------------------------------------
(* API Client *)

\* Python values of the analytics endpoint: None, {} and a summary object
None == [tag |-> "null", empty |-> TRUE, total_feedback |-> 0]
EmptyObject == [tag |-> "object", empty |-> TRUE, total_feedback |-> 0]
AnalyticsSummary(n) == [tag |-> "object", empty |-> FALSE, total_feedback |-> n]

\* what requests.get(...) and response.json() can do: requests.get raises
\* (no connection, timeout) or yields a response with a status code and a
\* body that parses as JSON or does not
ConnectionError == [kind |-> "ConnectionError", status_code |-> 0, json_ok |-> FALSE, body |-> <<>>]
Timeout == [kind |-> "Timeout", status_code |-> 0, json_ok |-> FALSE, body |-> <<>>]
Response(code, body) == [kind |-> "response", status_code |-> code, json_ok |-> TRUE, body |-> body]
BadJson(code) == [kind |-> "response", status_code |-> code, json_ok |-> FALSE, body |-> <<>>]

StatusCodes == {200, 401, 500}

\* the try block of both fetch functions:
\*   response = requests.get(...)
\*   return response.json() if response.status_code == 200 else <otherwise>
\* response.json() is called on a 200 response only
try_block(http, otherwise) ==
    IF http.kind # "response" THEN Raise(http.kind)
    ELSE IF http.status_code = 200
         THEN IF http.json_ok THEN Return(http.body) ELSE Raise("JSONDecodeError")
         ELSE Return(otherwise)

\* a plausible slip: only the exceptions of requests.get are caught, a body
\* that is no JSON escapes
except_RequestException(r, fallback) ==
    IF r.kind = "raise" /\ r.exc \in {"ConnectionError", "Timeout"}
    THEN [Return(fallback) EXCEPT !.st_error = TRUE]
    ELSE r

\* except Exception as e: st.error(...); return <fallback>
except_Exception(r, fallback) ==
    IF r.kind = "raise"
    THEN [Return(fallback) EXCEPT !.st_error = TRUE]
    ELSE r

fetch_analytics(http) == except_Exception(try_block(http, None), None)

fetch_feedbacks(http) == except_Exception(try_block(http, <<>>), <<>>)

----------------------------------------------------------------------------
(* Sort-then-cap step of main() *)

\* ord(c), for the characters of the modelled timestamps
ord(c) ==
    CASE c = "0" -> 48
      [] c = "1" -> 49
      [] c = "2" -> 50

\* a < b for two str: the first differing character decides, a proper prefix
\* is smaller
RECURSIVE str_lt(_, _)
str_lt(a, b) ==
    IF b = <<>> THEN FALSE
    ELSE IF a = <<>> THEN TRUE
    ELSE IF ord(Head(a)) # ord(Head(b)) THEN ord(Head(a)) < ord(Head(b))
    ELSE str_lt(Tail(a), Tail(b))

\* key=lambda x: x.get("created_at", "")
sort_key(x) == dict_get(x, "created_at", <<>>)

\* place x in a list that is in descending key order, behind every record
\* whose key is not smaller: the order sorted(..., reverse=True) gives, which
\* keeps records of equal key in their original order
RECURSIVE insert_desc(_, _)
insert_desc(acc, x) ==
    IF acc = <<>> THEN <<x>>
    ELSE IF str_lt(sort_key(Head(acc)).s, sort_key(x).s) THEN <<x>> \o acc
    ELSE <<Head(acc)>> \o insert_desc(Tail(acc), x)

\* a plausible slip: reverse=True left out
RECURSIVE insert_asc(_, _)
insert_asc(acc, x) ==
    IF acc = <<>> THEN <<x>>
    ELSE IF str_lt(sort_key(x).s, sort_key(Head(acc)).s) THEN <<x>> \o acc
    ELSE <<Head(acc)>> \o insert_asc(Tail(acc), x)

RECURSIVE sort_from(_, _, _)
sort_from(fbs, i, acc) ==
    IF i > Len(fbs) THEN acc ELSE sort_from(fbs, i + 1, insert_desc(acc, fbs[i]))

RECURSIVE sort_from_asc(_, _, _)
sort_from_asc(fbs, i, acc) ==
    IF i > Len(fbs) THEN acc ELSE sort_from_asc(fbs, i + 1, insert_asc(acc, fbs[i]))

\* comparing None with anything raises TypeError; a list of two or more
\* records has every key compared at least once
sorted_keys_comparable(fbs) ==
    Len(fbs) < 2 \/ \A i \in 1..Len(fbs) : sort_key(fbs[i]).tag # "null"

sorted_ascending(fbs) ==
    IF sorted_keys_comparable(fbs) THEN Return(sort_from_asc(fbs, 1, <<>>))
    ELSE Raise("TypeError")

\* sorted(feedbacks, key=lambda x: x.get("created_at", ""), reverse=True)
sorted_reverse(fbs) ==
    IF sorted_keys_comparable(fbs) THEN Return(sort_from(fbs, 1, <<>>))
    ELSE Raise("TypeError")

\* seq[:n]
slice_to(seq, n) == SubSeq(seq, 1, IF Len(seq) < n THEN Len(seq) ELSE n)

\* a plausible slip: the count of the capped page in the stats bar
stats_bar_of_page(filtered, fbs) ==
    [displaying |-> Len(slice_to(filtered, PageSize)), total |-> Len(fbs)]

\* DISPLAYING {len(filtered_feedbacks)} OF {len(feedbacks)} RECORDS
stats_bar(filtered, fbs) ==
    [displaying |-> Len(filtered), total |-> Len(fbs)]

\* the feedback section of main(), from "if feedbacks:" on
feedback_section(fetched_value, rating_sel, sentiment_sel, query) ==
    LET nothing == [exc |-> "none", feed |-> "empty", feedbacks |-> fetched_value,
                    filtered |-> <<>>, displaying |-> 0, total |-> 0,
                    items |-> <<>>]
    IN
    IF fetched_value = <<>> THEN nothing
    ELSE
    LET s == sorted_reverse(fetched_value) IN
    IF s.kind = "raise" THEN [nothing EXCEPT !.exc = s.exc, !.feed = "none"]
    ELSE
    LET f == filter_feedbacks(s.value, rating_sel, sentiment_sel, query) IN
    IF f.kind = "raise"
    THEN [nothing EXCEPT !.exc = f.exc, !.feed = "none", !.feedbacks = s.value]
    ELSE
    LET bar == stats_bar(f.value, s.value) IN
    [exc |-> "none", feed |-> "stream", feedbacks |-> s.value,
     filtered |-> f.value, displaying |-> bar.displaying, total |-> bar.total,
     items |-> slice_to(f.value, PageSize)]

----------------------------------------------------------------------------
(* Inputs *)

aB == <<"a", "B">>

Feedback(rating, sentiment, review, ai_summary, created_at) ==
    [rating |-> rating, sentiment |-> sentiment, review |-> review,
     ai_summary |-> ai_summary, created_at |-> created_at]

\* sentiment strings: every short string over a letter and '.', and labels
\* (recognized or not) followed by up to MaxDots '.' characters
SentimentLabels ==
    {Positive, Neutral, Negative, Unknown,
     <<"p", "o", "s", "i", "t", "i", "v", "e">>, <<"M", "i", "x", "e", "d">>}

SentimentStrings ==
    Strings({"a", Dot}, MaxStrLen)
    \cup {l \o Dots(k) : l \in SentimentLabels, k \in 0..MaxDots}

NormalizeInputs ==
    {Feedback(IntVal(5), st, Absent, Absent, Absent) :
        st \in {Absent, Null} \cup {Str(x) : x \in SentimentStrings}}

\* records as the data model describes them: an integer rating, text fields
\* that are strings or left out
SampleRecords ==
    {Feedback(IntVal(r), st, t[1], t[2], Absent) :
        r \in {1, 5},
        st \in {Absent, Str(Positive \o Dots(1))},
        t \in {<<Absent, Absent>>, <<Str(aB), Absent>>,
               <<Absent, Str(<<"B", "a">>)>>}}

\* records with a key left out or mapped to null where the code reads it
OddRecords ==
    LET base == Feedback(IntVal(5), Str(Positive), Str(aB), Absent, Absent) IN
    {[base EXCEPT !.rating = NoRating],
     [base EXCEPT !.rating = NullRating],
     [base EXCEPT !.sentiment = Null],
     [base EXCEPT !.review = Null],
     [base EXCEPT !.ai_summary = Null]}

FilterRecords == SampleRecords \cup OddRecords

FilterLists == UNION {[1..n -> FilterRecords] : n \in 0..MaxRecords}

RatingSelections == {{}, {5}, {1, 5}}
SentimentSelections == {{}, {Positive}, {Positive, Unknown}}
Queries == {<<>>, <<"b">>, <<"B", "A">>}

\* generated answers of the feedbacks endpoint: family 1 holds ratings 1..5
\* and the four labels only, the other families also hold other ratings and
\* labels; created_at values repeat, are left out, and come in no order
SentimentTable ==
    <<Str(Positive), Str(Negative \o Dots(1)), Absent, Str(Neutral),
      Str(<<"p", "o", "s", "i", "t", "i", "v", "e">>),
      Str(<<"M", "i", "x", "e", "d">>), Str(Positive \o Dots(2))>>
ReviewTable == <<Str(aB), Absent, Str(<<"b">>)>>
SummaryTable == <<Absent, Str(<<"B", "a">>)>>
CreatedTable ==
    <<Str(<<"2">>), Absent, Str(<<"1", "0">>), Str(<<"1">>), Str(<<"2", "1">>)>>

Rec(i, k) ==
    Feedback(IntVal(((i * k) % (4 + k)) + 1),
             SentimentTable[(((i * k) % (3 + k)) % Len(SentimentTable)) + 1],
             ReviewTable[(i % Len(ReviewTable)) + 1],
             SummaryTable[((i + k) % Len(SummaryTable)) + 1],
             CreatedTable[((i * (k + 1)) % Len(CreatedTable)) + 1])

Feed(n, k) == [i \in 1..n |-> Rec(i, k)]

\* answers with a key left out or mapped to null where main() reads it
OddFeeds ==
    {[Feed(n, 1) EXCEPT ![1].created_at = Null] : n \in 1..3}
    \cup {[Feed(2, 1) EXCEPT ![2].rating = NoRating],
          [Feed(2, 1) EXCEPT ![2].sentiment = Null],
          [Feed(2, 1) EXCEPT ![1].review = Null]}

\* lengths of the generated answers: short ones, and the ones around PageSize
FeedSizes == (0..(MaxRecords + 1)) \cup ((PageSize - 1)..MaxFetched)

FeedBodies == {Feed(n, k) : n \in FeedSizes, k \in 1..NumPatterns} \cup OddFeeds

AnalyticsBodies == {EmptyObject, AnalyticsSummary(1)}

HttpOutcomes(bodies) ==
    {ConnectionError, Timeout}
    \cup {Response(c, b) : c \in StatusCodes, b \in bodies}
    \cup {BadJson(c) : c \in StatusCodes}

\* the AUTHENTICATE text input and the configured key
KeyInputs == {<<>>, <<"k">>, <<"x">>}
ConfiguredKeys == {Null, Str(<<>>), Str(<<"k">>)}

\* the options of the two multiselect widgets
RatingOptions == {1, 2, 3, 4, 5}
SentimentOptions == {Positive, Neutral, Negative, Unknown}

\* the selections the model lets the operator make
WidgetRatings == {RatingOptions, {}, {1, 2, 3}}
WidgetSentiments == {SentimentOptions, {}, {Negative, Unknown}}
WidgetQueries == {<<>>, <<"B">>}

\* every selection the two multiselects can hold
AllRatingSelections == SUBSET RatingOptions
AllSentimentSelections == SUBSET SentimentOptions

\* an answer with ratings and sentiments the widgets do not offer, next to
\* records they do
OutsideFeed ==
    <<Feedback(IntVal(0), Str(Positive), Str(aB), Absent, Str(<<"2">>)),
      Feedback(IntVal(5), Str(<<"M", "i", "x", "e", "d">>), Absent, Absent,
               Str(<<"2", "1">>)),
      Feedback(IntVal(3), Str(Neutral \o Dots(1)), Str(<<"b">>), Absent,
               Str(<<"1">>)),
      Feedback(IntVal(6), Str(<<"p", "o", "s", "i", "t", "i", "v", "e">>),
               Absent, Str(<<"B", "a">>), Absent)>>

SelectFeeds == {OutsideFeed, Feed(MaxRecords + 1, NumPatterns)}

----------------------------------------------------------------------------
(* Function calls: a behaviour is one call of one function on one input *)

NoCall == [fn |-> "none"]

InitSession ==
    /\ API_KEY \in ConfiguredKeys
    /\ authenticated = FALSE
    /\ pc = "idle"
    /\ button = "none"
    /\ requests = <<>>
    /\ analytics = None
    /\ fetched = <<>>
    /\ feedbacks = <<>>
    /\ rating_filter = RatingOptions
    /\ sentiment_filter = SentimentOptions
    /\ search_query = <<>>
    /\ filtered_feedbacks = <<>>
    /\ page = [screen |-> "none", auth_error |-> FALSE, analytics_section |-> "none",
               feed |-> "none", displaying |-> 0, total |-> 0, items |-> <<>>,
               sidebar |-> FALSE, exc |-> "none"]

InitCalls ==
    /\ call = NoCall
    /\ ret = Return(<<>>)
    /\ InitSession
    /\ API_KEY = Null

CallNormalize ==
    /\ call = NoCall
    /\ \E fb \in NormalizeInputs :
        /\ call' = [fn |-> "normalize_sentiment", feedback |-> fb]
        /\ ret' = normalize_sentiment(fb)
        /\ UNCHANGED sessionVars

CallFilter ==
    /\ call = NoCall
    /\ \E fbs \in FilterLists, r \in RatingSelections,
       st \in SentimentSelections, q \in Queries :
        /\ call' = [fn |-> "filter_feedbacks", feedbacks |-> fbs, rating_filter |-> r,
                    sentiment_filter |-> st, search_query |-> q]
        /\ ret' = filter_feedbacks(fbs, r, st, q)
        /\ UNCHANGED sessionVars

CallFetchAnalytics ==
    /\ call = NoCall
    /\ \E http \in HttpOutcomes(AnalyticsBodies) :
        /\ call' = [fn |-> "fetch_analytics", http |-> http]
        /\ ret' = fetch_analytics(http)
        /\ UNCHANGED sessionVars

CallFetchFeedbacks ==
    /\ call = NoCall
    /\ \E http \in HttpOutcomes(FeedBodies) :
        /\ call' = [fn |-> "fetch_feedbacks", http |-> http]
        /\ ret' = fetch_feedbacks(http)
        /\ UNCHANGED sessionVars

NextCalls ==
    \/ CallNormalize
    \/ CallFilter
    \/ CallFetchAnalytics
    \/ CallFetchFeedbacks

SpecCalls == InitCalls /\ [][NextCalls]_vars

----------------------------------------------------------------------------
(* The script run of main(), one run per page load, rerun or widget event *)

BlankPage ==
    [screen |-> "none", auth_error |-> FALSE, analytics_section |-> "none",
     feed |-> "none", displaying |-> 0, total |-> 0, items |-> <<>>,
     sidebar |-> FALSE, exc |-> "none"]

\* render_auth_screen(); st.stop()
AuthPage(denied) == [BlankPage EXCEPT !.screen = "auth", !.auth_error = denied]

\* not the code: no configured key lets every input in
key_matches_or_unset(api_key_input) ==
    API_KEY.tag # "str" \/ API_KEY.s = api_key_input

\* api_key_input == API_KEY: a str never equals None
key_matches(api_key_input) == API_KEY.tag = "str" /\ API_KEY.s = api_key_input

\* if analytics: ... (None and {} are falsy)
truthy(a) == a.tag = "object" /\ ~a.empty

\* a script run starts with no local variable of main() assigned and
\* nothing requested
FreshRun ==
    /\ requests' = <<>>
    /\ analytics' = None
    /\ fetched' = <<>>
    /\ feedbacks' = <<>>
    /\ filtered_feedbacks' = <<>>

\* main() from its first line to the first blocking call, for the session
\* flag auth: the auth screen and st.stop(), or the header and on to
\* fetch_analytics()
StartRun(auth, clicked) ==
    /\ FreshRun
    /\ IF auth
       THEN /\ pc' = "analytics"
            /\ button' = clicked
            /\ page' = [BlankPage EXCEPT !.screen = "dashboard"]
       ELSE /\ pc' = "idle"
            /\ button' = "none"
            /\ page' = AuthPage(FALSE)

\* main() is run again with the session as it is: the first load of the
\* session, or a rerun the operator asks for
Rerun ==
    /\ pc = "idle"
    /\ StartRun(authenticated, "none")
    /\ UNCHANGED <<call, ret, API_KEY, authenticated, rating_filter,
                   sentiment_filter, search_query>>

\* the AUTHENTICATE button of the auth screen, with the text typed: on a
\* match the flag is set and st.rerun() starts main() again, otherwise the
\* error is shown and the run stops
Authenticate(api_key_input) ==
    /\ pc = "idle"
    /\ page.screen = "auth"
    /\ IF key_matches(api_key_input)
       THEN /\ authenticated' = TRUE
            /\ StartRun(TRUE, "none")
       ELSE /\ authenticated' = authenticated
            /\ FreshRun
            /\ pc' = "idle"
            /\ button' = "none"
            /\ page' = AuthPage(TRUE)
    /\ UNCHANGED <<call, ret, API_KEY, rating_filter, sentiment_filter,
                   search_query>>

\* the operator changes the filter widgets of the feed, which reruns main()
SetFilters(rating_sel, sentiment_sel, query) ==
    /\ pc = "idle"
    /\ page.feed = "stream"
    /\ rating_filter' = rating_sel
    /\ sentiment_filter' = sentiment_sel
    /\ search_query' = query
    /\ StartRun(authenticated, "none")
    /\ UNCHANGED <<call, ret, API_KEY, authenticated>>

\* the LOGOUT button of the sidebar: the click reruns main(), and the button
\* is read when the run reaches render_sidebar()
Logout ==
    /\ pc = "idle"
    /\ page.sidebar
    /\ StartRun(authenticated, "LOGOUT")
    /\ UNCHANGED <<call, ret, API_KEY, authenticated, rating_filter,
                   sentiment_filter, search_query>>

\* analytics = fetch_analytics() and the analytics section
FetchAnalytics(http) ==
    /\ pc = "analytics"
    /\ requests' = Append(requests, "/admin/analytics")
    /\ analytics' = fetch_analytics(http).value
    /\ page' = [page EXCEPT !.analytics_section =
                   IF truthy(analytics') THEN "metrics" ELSE "error"]
    /\ pc' = "feedback"
    /\ UNCHANGED <<call, ret, API_KEY, authenticated, button, fetched, feedbacks,
                   rating_filter, sentiment_filter, search_query, filtered_feedbacks>>

\* feedbacks = fetch_feedbacks() and the rest of main(): sort, filters,
\* stats bar, the first PageSize items, the sidebar. An exception of the sort
\* or of the filter ends the run where it is raised. A LOGOUT click is acted
\* on in render_sidebar(): the flag is cleared and st.rerun() starts main()
\* again, which shows the auth screen.
FetchFeedbacks(http) ==
    /\ pc = "feedback"
    /\ LET got == fetch_feedbacks(http).value
           sec == feedback_section(got, rating_filter, sentiment_filter,
                                   search_query)
           shown == [page EXCEPT !.feed = sec.feed, !.displaying = sec.displaying,
                                 !.total = sec.total, !.items = sec.items,
                                 !.exc = sec.exc]
       IN
       IF sec.exc = "none" /\ button = "LOGOUT"
       THEN /\ authenticated' = FALSE
            /\ StartRun(FALSE, "none")
       ELSE /\ authenticated' = authenticated
            /\ requests' = Append(requests, "/admin/feedbacks")
            /\ analytics' = analytics
            /\ fetched' = got
            /\ feedbacks' = sec.feedbacks
            /\ filtered_feedbacks' = sec.filtered
            /\ page' = IF sec.exc = "none" THEN [shown EXCEPT !.sidebar = TRUE]
                       ELSE shown
            /\ pc' = "idle"
            /\ button' = "none"
    /\ UNCHANGED <<call, ret, API_KEY, rating_filter, sentiment_filter,
                   search_query>>

Init ==
    /\ call = NoCall
    /\ ret = Return(<<>>)
    /\ InitSession

Next ==
    \/ Rerun
    \/ \E k \in KeyInputs : Authenticate(k)
    \/ \E r \in WidgetRatings, st \in WidgetSentiments, q \in WidgetQueries :
          SetFilters(r, st, q)
    \/ Logout
    \/ \E http \in HttpOutcomes(AnalyticsBodies) : FetchAnalytics(http)
    \/ \E http \in HttpOutcomes(FeedBodies) : FetchFeedbacks(http)

Spec == Init /\ [][Next]_vars

\* the script runs of a session with a configured key, the filter widgets
\* taking every selection of their options
InitSelect == Init /\ API_KEY = Str(<<"k">>)

NextSelect ==
    \/ Rerun
    \/ \E k \in KeyInputs : Authenticate(k)
    \/ \E r \in AllRatingSelections, st \in AllSentimentSelections,
          q \in WidgetQueries : SetFilters(r, st, q)
    \/ Logout
    \/ \E http \in {Timeout, Response(200, AnalyticsSummary(1))} :
          FetchAnalytics(http)
    \/ \E http \in {Timeout} \cup {Response(200, b) : b \in SelectFeeds} :
          FetchFeedbacks(http)

SpecSelect == InitSelect /\ [][NextSelect]_vars

----------------------------------------------------------------------------
(* Properties of the function calls (checked under SpecCalls) *)

Range(seq) == {seq[i] : i \in 1..Len(seq)}

\* a record of the data model: an integer rating, and the three text fields
\* each a string or left out
WellFormed(fb) ==
    /\ fb.rating.tag = "int"
    /\ fb.sentiment.tag # "null"
    /\ fb.review.tag # "null"
    /\ fb.ai_summary.tag # "null"

FilterCall == call.fn = "filter_feedbacks"
WellFormedFilterCall ==
    FilterCall /\ \A i \in 1..Len(call.feedbacks) : WellFormed(call.feedbacks[i])
NormalizeCall == call.fn = "normalize_sentiment"

\* a text field, a left-out one counting as the empty string
TextOrEmpty(f) == IF f.tag = "str" THEN f.s ELSE <<>>

\* the same letter in either case
SameLetter(c, d) == c = d \/ {c, d} \in {{"a", "A"}, {"b", "B"}}

\* q occurs in t when case is ignored
OccursIgnoringCase(q, t) ==
    \E i \in 0..(Len(t) - Len(q)) : \A j \in 1..Len(q) : SameLetter(q[j], t[i + j])

\* the three conditions of the filter contract
Matches(fb, rating_sel, sentiment_sel, query) ==
    /\ fb.rating.n \in rating_sel
    /\ normalize_sentiment(fb).value \in sentiment_sel
    /\ \/ query = <<>>
       \/ OccursIgnoringCase(query, TextOrEmpty(fb.review))
       \/ OccursIgnoringCase(query, TextOrEmpty(fb.ai_summary))

\* C1: on a list of data-model records, filter_feedbacks returns, and a
\* record of the list is in the result if and only if its rating is in
\* rating_filter, its normalized sentiment is in sentiment_filter, and
\* search_query is empty or occurs, ignoring case, in its review or its
\* ai_summary (a left-out one counting as empty); nothing else is returned.
C1_FilterContract ==
    WellFormedFilterCall =>
        /\ ret.kind = "return"
        /\ Range(ret.value) \subseteq Range(call.feedbacks)
        /\ \A fb \in Range(call.feedbacks) :
              fb \in Range(ret.value) <=>
                  Matches(fb, call.rating_filter, call.sentiment_filter,
                          call.search_query)

\* a record without a review is kept because the query occurs in its
\* ai_summary in another case only, and another record is dropped
C1_Witness ==
    /\ WellFormedFilterCall
    /\ ret.kind = "return"
    /\ call.search_query # <<>>
    /\ \E fb \in Range(ret.value) :
          /\ fb.review.tag = "absent"
          /\ ~str_in(call.search_query, TextOrEmpty(fb.ai_summary))
    /\ Range(call.feedbacks) \ Range(ret.value) # {}

\* C2 (as the spec states it): a failed fetch (no connection, timeout,
\* non-200 status, unparsable body) gives fetch_feedbacks' caller a value that
\* differs from the one a successful fetch of zero records gives.
C2_FailureDistinct ==
    (call.fn = "fetch_feedbacks"
        /\ (call.http.kind # "response" \/ call.http.status_code # 200
            \/ ~call.http.json_ok))
    => ret.value # fetch_feedbacks(Response(200, <<>>)).value

\* C3: whatever the HTTP request does, fetch_analytics and fetch_feedbacks
\* return a value; no exception leaves either function.
C3_FetchReturns ==
    call.fn \in {"fetch_analytics", "fetch_feedbacks"} => ret.kind = "return"

\* a 200 answer whose body is no JSON: the exception is caught
C3_Witness ==
    /\ call.fn \in {"fetch_analytics", "fetch_feedbacks"}
    /\ call.http = BadJson(200)
    /\ ret.kind = "return"
    /\ ret.st_error

\* C4 (as the spec states it): normalize_sentiment and filter_feedbacks
\* return a result for every record, also when rating, review, ai_summary or
\* sentiment is left out or null.
C4_Total ==
    (NormalizeCall \/ FilterCall) => ret.kind = "return"

\* C5: without a sentiment field normalize_sentiment returns "Unknown";
\* with a sentiment string it returns that string without its trailing '.'
\* characters: a prefix of it, followed in the input by '.' only, and not
\* itself ending in '.'.
C5_Normalize ==
    NormalizeCall =>
        LET f == call.feedback.sentiment IN
        /\ f.tag = "absent" => ret = Return(Unknown)
        /\ f.tag = "str" =>
              /\ ret.kind = "return"
              /\ \E k \in 0..Len(f.s) :
                    /\ ret.value = SubSeq(f.s, 1, k)
                    /\ \A j \in (k + 1)..Len(f.s) : f.s[j] = Dot
              /\ ret.value = <<>> \/ ret.value[Len(ret.value)] # Dot

\* "Positive.." yields "Positive"
C5_Witness ==
    /\ NormalizeCall
    /\ call.feedback.sentiment = Str(Positive \o Dots(2))
    /\ ret = Return(Positive)

\* C6: normalizing a record whose sentiment is the normalized value of s
\* gives the normalized value of s again.
C6_Idempotent ==
    (NormalizeCall /\ call.feedback.sentiment.tag = "str") =>
        /\ ret.kind = "return"
        /\ normalize_sentiment([call.feedback EXCEPT !.sentiment = Str(ret.value)]) = ret

\* a string of two or more '.' only, normalized to the empty string
C6_Witness ==
    /\ NormalizeCall
    /\ call.feedback.sentiment.tag = "str"
    /\ Len(call.feedback.sentiment.s) >= 2
    /\ \A j \in 1..Len(call.feedback.sentiment.s) : call.feedback.sentiment.s[j] = Dot
    /\ ret = Return(<<>>)

RECURSIVE IsSubsequence(_, _)
IsSubsequence(out, in) ==
    IF out = <<>> THEN TRUE
    ELSE IF in = <<>> THEN FALSE
    ELSE IF Head(out) = Head(in) THEN IsSubsequence(Tail(out), Tail(in))
    ELSE IsSubsequence(out, Tail(in))

\* C7: what filter_feedbacks returns is a subsequence of its input: the
\* kept records in their input order, none twice, none invented.
C7_OrderPreserved ==
    (FilterCall /\ ret.kind = "return") => IsSubsequence(ret.value, call.feedbacks)

\* two different records are both kept
C7_Witness ==
    /\ FilterCall
    /\ ret.kind = "return"
    /\ Len(ret.value) >= 2
    /\ ret.value[1] # ret.value[2]

\* C8: with an empty rating_filter or an empty sentiment_filter,
\* filter_feedbacks returns the empty list for every list of data-model
\* records and every search_query.
C8_EmptySelection ==
    (WellFormedFilterCall
        /\ (call.rating_filter = {} \/ call.sentiment_filter = {}))
    => ret = Return(<<>>)

\* an empty rating_filter, a sentiment_filter that admits every record of a
\* non-empty list, no search text
C8_Witness ==
    /\ WellFormedFilterCall
    /\ call.feedbacks # <<>>
    /\ call.rating_filter = {}
    /\ call.search_query = <<>>
    /\ \A fb \in Range(call.feedbacks) :
          normalize_sentiment(fb).value \in call.sentiment_filter
    /\ ret = Return(<<>>)

----------------------------------------------------------------------------
(* Properties of the script run (checked under Spec) *)

\* a run that fetched feedback, sorted and filtered it and rendered the feed
FeedRendered == pc = "idle" /\ page.feed = "stream"

\* a run whose sort of a non-empty fetched list has completed
SortDone ==
    /\ pc = "idle"
    /\ Len(requests) = 2
    /\ fetched # <<>>
    /\ page.exc # "TypeError"

Min(a, b) == IF a < b THEN a ELSE b

CreatedOrEmpty(fb) == TextOrEmpty(fb.created_at)

\* a sorts before b as a string
Before(a, b) ==
    \E k \in 1..Len(b) :
        /\ k <= Len(a) + 1
        /\ \A j \in 1..(k - 1) : a[j] = b[j]
        /\ k = Len(a) + 1 \/ ord(a[k]) < ord(b[k])

Count(x, seq) == Cardinality({i \in 1..Len(seq) : seq[i] = x})

\* C10: the list handed to the filter is the fetched list sorted by
\* created_at, descending, a left-out created_at counting as the empty
\* string: no record's created_at sorts before that of the record after it,
\* every record without created_at comes after every record with one (a
\* timestamp, so not empty), and the sorted list holds the same records as
\* the fetched list, each as often.
C10_SortedDescending ==
    SortDone =>
        /\ \A i \in 1..(Len(feedbacks) - 1) :
              ~Before(CreatedOrEmpty(feedbacks[i]), CreatedOrEmpty(feedbacks[i + 1]))
        /\ \A i, j \in 1..Len(feedbacks) :
              (feedbacks[i].created_at.tag = "absent"
                  /\ feedbacks[j].created_at.tag = "str") => j < i
        /\ Len(feedbacks) = Len(fetched)
        /\ \A x \in Range(fetched) : Count(x, feedbacks) = Count(x, fetched)

\* the fetched list was not in order, has records without created_at before
\* records with one, and records of equal created_at
C10_Witness ==
    /\ SortDone
    /\ feedbacks # fetched
    /\ \E i, j \in 1..Len(fetched) :
          /\ i < j
          /\ fetched[i].created_at.tag = "absent"
          /\ fetched[j].created_at.tag = "str"
    /\ \E i, j \in 1..Len(fetched) :
          i # j /\ fetched[i].created_at = fetched[j].created_at
    /\ feedbacks[Len(feedbacks)].created_at.tag = "absent"

\* the two endpoints main() requests, in the order of its calls
RunRequests == <<"/admin/analytics", "/admin/feedbacks">>

\* what a run has requested so far is a prefix of RunRequests: neither
\* endpoint twice, the feedback request never before the analytics request,
\* and the feedback request is the next step whatever fetch_analytics
\* returned
CallsInOrder ==
    /\ \E n \in 0..Len(RunRequests) : requests = SubSeq(RunRequests, 1, n)
    /\ pc = "analytics" => requests = <<>>
    /\ pc = "feedback" => requests = SubSeq(RunRequests, 1, 1)

\* a dashboard run that has ended has made both requests and has rendered
\* main() to its last line, the sidebar
RunsToCompletion ==
    (pc = "idle" /\ page.screen = "dashboard") =>
        /\ requests = RunRequests
        /\ page.exc = "none"
        /\ page.sidebar

\* C11 (as the spec states it): a run requests at most the analytics
\* endpoint and then the feedback endpoint, each once and never again, the
\* feedback endpoint also after a failed analytics fetch, and every run
\* that has ended has run main() to its end.
C11_TwoCallsToCompletion == CallsInOrder /\ RunsToCompletion

\* while the flag is false no run is under way past the auth check, nothing
\* has been requested and no dashboard or feedback record is on the page
GateClosed ==
    ~authenticated =>
        /\ pc = "idle"
        /\ requests = <<>>
        /\ page.screen # "dashboard"
        /\ page.items = <<>>

\* a step that sets the flag is an AUTHENTICATE click whose text equals a
\* configured API_KEY
FlagSetByMatchingKey ==
    (~authenticated /\ authenticated') =>
        \E k \in KeyInputs : Authenticate(k) /\ API_KEY = Str(k)

\* a step that clears the flag is the end of a run started by a LOGOUT
\* click, and every such run that reaches render_sidebar() clears it
FlagClearedByLogout ==
    /\ (authenticated /\ ~authenticated') =>
          /\ button = "LOGOUT"
          /\ \E http \in HttpOutcomes(FeedBodies) : FetchFeedbacks(http)
    /\ (button = "LOGOUT" /\ pc = "feedback" /\ page'.exc = "none") =>
          ~authenticated'

\* C12: the session starts with the flag false; the flag becomes true only
\* by an AUTHENTICATE click whose text equals the configured API_KEY, never
\* without a configured key; LOGOUT, when render_sidebar() handles it, sets
\* the flag back to false and nothing else does; while the flag is false no
\* request is made and no feedback record is rendered.
C12_AuthGate ==
    /\ ~authenticated
    /\ []GateClosed
    /\ [][FlagSetByMatchingKey /\ FlagClearedByLogout]_vars

\* back on the auth screen after a logout: the search text was typed on the
\* dashboard, which took a matching key to reach
C12_Witness ==
    /\ ~authenticated
    /\ page.screen = "auth"
    /\ search_query # <<>>
    /\ requests = <<>>

----------------------------------------------------------------------------
(* Properties of the filter widgets (checked under SpecSelect) *)

\* a record some selection of the widgets' options can admit: its rating is
\* one of the rating options and its normalized sentiment one of the
\* sentiment options
Selectable(fb) ==
    /\ fb.rating.tag = "int"
    /\ fb.rating.n \in RatingOptions
    /\ normalize_sentiment(fb).kind = "return"
    /\ normalize_sentiment(fb).value \in SentimentOptions

\* C13: whatever the operator selects, the widgets hold options only, so
\* every record rendered in the feed has a rating in 1..5 and a normalized
\* sentiment among Positive, Neutral, Negative, Unknown; a fetched record
\* outside them is never rendered, and the total of the stats bar is the
\* number of fetched records, those included.
C13_OutsideOptionsNeverShown ==
    /\ rating_filter \subseteq RatingOptions
    /\ sentiment_filter \subseteq SentimentOptions
    /\ \A i \in 1..Len(page.items) : Selectable(page.items[i])
    /\ \A fb \in Range(fetched) : ~Selectable(fb) => fb \notin Range(page.items)
    /\ FeedRendered => page.total = Len(fetched)

\* with every option selected and no search text, a record of rating 6 or 0
\* and a record of sentiment 'positive' or 'Mixed' were fetched; neither is
\* rendered, other records are, and the total counts them all
C13_Witness ==
    /\ FeedRendered
    /\ rating_filter = RatingOptions
    /\ sentiment_filter = SentimentOptions
    /\ search_query = <<>>
    /\ \E fb \in Range(fetched) :
          /\ fb.rating.n \notin RatingOptions
          /\ normalize_sentiment(fb).value \in SentimentOptions
          /\ fb \notin Range(page.items)
    /\ \E fb \in Range(fetched) :
          /\ fb.rating.n \in RatingOptions
          /\ normalize_sentiment(fb).value \notin SentimentOptions
          /\ fb \notin Range(page.items)
    /\ page.items # <<>>
    /\ page.total = Len(fetched)
    /\ page.displaying < page.total

====
